---- MODULE Spec2Model ----
(***************************************************************************)
(* Content-addressed image store of xid-protocol/common (src/image.go).   *)
(*                                                                         *)
(* The ImageStore orchestrates two MongoDB backends: a GridFS bucket      *)
(* (the blob repository) and the imageMetadata collection (the catalog).  *)
(* Every backend call is one atomic step of the calling goroutine; the    *)
(* steps of concurrent callers interleave freely, any backend call may    *)
(* fail, and a caller may crash between two steps.  A GridFS file is an   *)
(* fs.files document and its fs.chunks documents, which the driver       *)
(* writes, deletes and reads with separate backend calls: a Close, a      *)
(* Delete and an OpenDownloadStream are two steps each.                   *)
(***************************************************************************)
EXTENDS Integers, Sequences, FiniteSets, TLC

(***************************************************************************)
(* Bounds of the model.                                                    *)
(***************************************************************************)
\* Number of identifiers xid.New() / primitive.NewObjectID() hand out.
MaxImages == 2
\* Largest reading of time.Now(); the wall clock saturates there.
MaxClock == 1

\* The concurrent callers (goroutines) of the ImageStore.
Procs == {"c1", "c2"}

(***************************************************************************)
(* Errors (src/image.go:24-28) and the wrapped backend errors.            *)
(***************************************************************************)
NilErr == "nil"
ErrImageNotFound == "image not found"
ErrInvalidImageType == "invalid image type"
ErrImageAlreadyExists == "image already exists"
ErrReadData == "failed to read image data"
ErrOpenUpload == "failed to open upload stream"
ErrWriteGridFS == "failed to write to GridFS"
ErrSaveMetadata == "failed to save metadata"
ErrGetMetadata == "failed to get image metadata"
ErrOpenDownload == "failed to open download stream"
ErrDeleteGridFS == "failed to delete from GridFS"
ErrDeleteMetadata == "failed to delete metadata"
ErrUpdateTags == "failed to update tags"
ErrUpdateMetadata == "failed to update metadata"
ErrListGridFS == "failed to list GridFS files"
ErrFindImages == "failed to find images"
ErrCursor == "cursor error"
ErrCountImages == "failed to count images"
ErrAggregate == "failed to aggregate stats"
ErrCreateDir == "failed to create output directory"
ErrCreateFile == "failed to create output file"
ErrDownload == "failed to download image"

(***************************************************************************)
(* Payloads.  A payload is its byte sequence: a leading signature (the    *)
(* magic number http.DetectContentType sniffs) followed by body bytes.    *)
(***************************************************************************)
PngA == <<"PNG", 1>>
GifB == <<"GIF", 2, 3>>
TextC == <<"TXT", 4>>
Payloads == {PngA, GifB, TextC}

\* http.DetectContentType: decided by the bytes alone.  Go's sniffer knows
\* no TIFF and no SVG signature, so those fall through to the defaults.
DetectContentType(data) ==
    CASE data[1] = "PNG" -> "image/png"
      [] data[1] = "GIF" -> "image/gif"
      [] data[1] = "JPEG" -> "image/jpeg"
      [] data[1] = "WEBP" -> "image/webp"
      [] data[1] = "BMP" -> "image/bmp"
      [] data[1] = "TXT" -> "text/plain; charset=utf-8"
      [] OTHER -> "application/octet-stream"

validTypes ==
    {"image/jpeg", "image/jpg", "image/png", "image/gif",
     "image/webp", "image/bmp", "image/tiff", "image/svg+xml"}

isValidImageTypeAcceptAll(contentType) == TRUE

isValidImageType(contentType) == contentType \in validTypes

\* fmt.Sprintf("%x", sha256.Sum256(imageData)): a digest of the exact byte
\* sequence; distinct payloads of the model have distinct digests.
Sha256Hex(data) == <<"sha256", data>>

(***************************************************************************)
(* Inputs of the calls.                                                    *)
(***************************************************************************)
Filenames == {"a.img"}
\* Tags and custom metadata a Store is called with, and the ones an Update
\* replaces them by.
TagInputs == {<<"x">>}
MetadataInputs == {"m0"}
NewTagInputs == {<<"y">>}
NewMetadataInputs == {"m1"}
ImageIDs == 1..MaxImages
\* Tag sequences of the records a listing runs over, and the tag filters,
\* limits and offsets ListImages is called with.
ListedTags == {<<>>, <<"x">>, <<"x", "y">>}
TagFilters == {<<>>, <<"y">>, <<"z", "x">>}
Limits == -1..2
Offsets == -1..2
\* An imageID no Store ever generated.
UnknownID == 0
ImageIDInputs == ImageIDs \cup {UnknownID}

(***************************************************************************)
(* State.                                                                  *)
(***************************************************************************)
VARIABLES
    catalog,      \* imageMetadata collection: a set of ImageMeta documents
    bucket,       \* GridFS bucket "images": its fs.files documents
    chunks,       \* GridFS bucket "images": its fs.chunks documents
    uniqueIndex,  \* whether the deployment's collection has a unique index on checksum
    nextID,       \* identifiers handed out so far
    clock,        \* the wall clock read by time.Now()
    pc,           \* per caller: position inside its current call
    frame,        \* per caller: arguments, locals and results of its current call
    stored,       \* history: <<checksum, imageID>> of every Store that returned (id, nil)
    hist          \* history: which calls were made, and how calls ended

vars == <<catalog, bucket, chunks, uniqueIndex, nextID, clock, pc, frame, stored, hist>>

NoMeta == [ImageID |-> UnknownID]

\* The locals of a call before it starts.
NoFrame ==
    [op |-> "none", data |-> <<>>, filename |-> "", tags |-> <<>>, metadata |-> "none",
     argID |-> UnknownID, contentType |-> "", checksum |-> <<>>,
     imageID |-> UnknownID, gridfsID |-> UnknownID, imageMeta |-> NoMeta, now |-> 0,
     cursor |-> {}, file |-> UnknownID, orphanedCount |-> 0,
     retID |-> UnknownID, retErr |-> NilErr, retStream |-> <<>>, missing |-> FALSE,
     written |-> <<>>,
     limit |-> 0, offset |-> 0, retList |-> <<>>, totalCount |-> 0, retStats |-> <<>>,
     calls |-> <<>>, faulted |-> FALSE, insertErr |-> "none", deleteFault |-> FALSE,
     closeFault |-> FALSE, filesErr |-> FALSE,
     prior |-> {}, absent |-> FALSE,
     startBlobs |-> {}, startOrphans |-> {}, startDangling |-> {}, scenario |-> FALSE,
     seen |-> <<>>, quiet |-> TRUE]

\* pristine: every call so far is a StoreImageFromReader that returned a nil
\* error, is still running, or crashed between its Write and its InsertOne;
\* midCrashed: the gridfsIDs of the Stores that crashed there.
NoHist == [pristine |-> TRUE, midCrashed |-> {}]

\* NewImageStore (src/image.go:51-56) takes the collection as it finds it
\* and creates no index: the stores start empty, and whether the collection
\* carries a unique index on checksum is the deployment's choice, as is the
\* reading of the wall clock at that moment.
InitStore(unique, now) ==
    /\ catalog = {}
    /\ bucket = {}
    /\ chunks = {}
    /\ uniqueIndex = unique
    /\ nextID = 0
    /\ clock = now
    /\ pc = [p \in Procs |-> "idle"]
    /\ frame = [p \in Procs |-> NoFrame]
    /\ stored = {}
    /\ hist = NoHist

Init == InitStore(FALSE, 0)

\* The store created when the wall clock has reached its last reading:
\* every time.Now() of the calls returns the same instant.
InitLate == InitStore(FALSE, MaxClock)

\* The ImageMeta document, the fs.files document and the fs.chunks document
\* (the payloads are shorter than one chunk) a successful Store of data
\* under identifier id at time now leaves (lines 111-137).
StoredMeta(id, data, tags, now) ==
    [ImageID |-> id, GridFSID |-> id, OriginalName |-> "a.img",
     ContentType |-> DetectContentType(data), Size |-> Len(data),
     Checksum |-> Sha256Hex(data), Tags |-> tags, Metadata |-> "m0",
     CreatedAt |-> now, UpdatedAt |-> now]

StoredFile(id, data) == [ID |-> id, filename |-> "a.img", length |-> Len(data)]

StoredChunks(id, data) == [files_id |-> id, data |-> data]

\* A store that successful Stores and Deletes have filled: per identifier
\* either nothing, or the record and the blob of one stored image.
Absent == <<>>
Slots == {Absent} \cup ({PngA, GifB} \X ListedTags \X (0..MaxClock))

InitFilled ==
    \E slot \in [ImageIDs -> Slots] :
        LET used == {i \in ImageIDs : slot[i] # Absent}
        IN  /\ catalog = {StoredMeta(i, slot[i][1], slot[i][2], slot[i][3]) : i \in used}
            /\ bucket = {StoredFile(i, slot[i][1]) : i \in used}
            /\ chunks = {StoredChunks(i, slot[i][1]) : i \in used}
            /\ uniqueIndex = FALSE
            /\ nextID = MaxImages
            /\ clock = MaxClock
            /\ pc = [p \in Procs |-> "idle"]
            /\ frame = [p \in Procs |-> NoFrame]
            /\ stored = {<<Sha256Hex(slot[i][1]), i>> : i \in used}
            /\ hist = NoHist

InitUniqueIndex == InitStore(TRUE, MaxClock)

(***************************************************************************)
(* Backend operations.                                                     *)
(***************************************************************************)
BucketIDs == {f.ID : f \in bucket}

\* metaCollection.FindOne / CountDocuments filters.
ByImageID(id) == {r \in catalog : r.ImageID = id}
ByChecksum(ck) == {r \in catalog : r.Checksum = ck}
ByGridFSID(g) == {r \in catalog : r.GridFSID = g}

\* The fs.chunks documents of file g.
ChunksOf(g) == {c \in chunks : c.files_id = g}

\* A file whose fs.files document and whose chunks are both there: the blob
\* a read can deliver.
Readable(g) == g \in BucketIDs /\ ChunksOf(g) # {}

\* The fs.files collection without the document of file g.
BucketAfterDelete(g) == {f \in bucket : f.ID # g}

\* The fs.chunks collection without the chunks of file g.
ChunksAfterDelete(g) == chunks \ ChunksOf(g)

\* bucket.Delete(id) is two backend calls: the DeleteOne of the fs.files
\* document, then the delete of the file's chunks, which the driver makes
\* whether or not the first failed or found nothing.  Other calls may run
\* between the two, and each may fail.

\* Whether the DeleteOne of bucket.Delete(g) ends in an error: a failed
\* backend call, or ErrFileNotFound when there is no fs.files document.
FilesDeleteFails(g, failed) == failed \/ g \notin BucketIDs

\* The fs.files documents the DeleteOne of bucket.Delete(g) leaves.
BucketDeleteLeaves(g, failed) == IF failed THEN bucket ELSE BucketAfterDelete(g)

\* The fs.chunks documents the chunk delete of bucket.Delete(g) leaves.
ChunksDeleteLeaves(g, failed) == IF failed THEN chunks ELSE ChunksAfterDelete(g)

\* A call that has returned keeps its results in frame until its caller has
\* taken them (Return); taking them is local to the caller, so no other step
\* is put between the call's last step and it.
At(p, label) == pc[p] = label /\ \A q \in Procs : pc[q] # "done"
Idle(p) == At(p, "idle")

\* A call starts: the history notes its kind.
Started(op) == [hist EXCEPT !.pristine = @ /\ op = "StoreImageFromReader"]

(***************************************************************************)
(* time.Now(): the wall clock does not run backwards; two readings may    *)
(* be equal.                                                               *)
(***************************************************************************)
Readings == {t \in {clock, clock + 1} : t <= MaxClock}

(***************************************************************************)
(* StoreImageFromReader (src/image.go:84-146).                             *)
(***************************************************************************)
\* Lines 84-98: read the stream, sniff the type, gate on the allow-list,
\* compute the checksum.  No backend is touched.
StoreBegin(p) ==
    /\ Idle(p)
    /\ \E data \in Payloads, filename \in Filenames, tags \in TagInputs,
          metadata \in MetadataInputs, readOK \in BOOLEAN :
        LET contentType == DetectContentType(data)
            f0 == [NoFrame EXCEPT !.op = "StoreImageFromReader", !.data = data,
                                  !.filename = filename, !.tags = tags,
                                  !.metadata = metadata,
                                  !.prior = {s[2] : s \in {t \in stored : t[1] = Sha256Hex(data)}}]
        IN  IF ~readOK
              THEN /\ frame' = [frame EXCEPT ![p] = [f0 EXCEPT !.retErr = ErrReadData]]
                   /\ pc' = [pc EXCEPT ![p] = "done"]
              ELSE IF ~isValidImageType(contentType)
              THEN /\ frame' = [frame EXCEPT ![p] =
                          [f0 EXCEPT !.contentType = contentType,
                                     !.retErr = ErrInvalidImageType]]
                   /\ pc' = [pc EXCEPT ![p] = "done"]
              ELSE /\ frame' = [frame EXCEPT ![p] =
                          [f0 EXCEPT !.contentType = contentType,
                                     !.checksum = Sha256Hex(data)]]
                   /\ pc' = [pc EXCEPT ![p] = "lookup"]
    /\ hist' = Started("StoreImageFromReader")
    /\ UNCHANGED <<catalog, bucket, chunks, uniqueIndex, nextID, clock, stored>>

StoreLookupAborts(p) ==
    /\ At(p, "lookup")
    /\ \E failed \in BOOLEAN :
        LET f1 == [frame[p] EXCEPT !.calls = Append(@, "FindOne"), !.faulted = @ \/ failed]
            found == ByChecksum(frame[p].checksum)
        IN  \/ /\ failed
               /\ frame' = [frame EXCEPT ![p] = [f1 EXCEPT !.retErr = ErrGetMetadata]]
               /\ pc' = [pc EXCEPT ![p] = "done"]
               /\ UNCHANGED nextID
            \/ /\ ~failed /\ found # {}
               /\ \E existing \in found :
                    /\ frame' = [frame EXCEPT ![p] =
                           [f1 EXCEPT !.retID = existing.ImageID,
                                      !.retErr = ErrImageAlreadyExists]]
                    /\ pc' = [pc EXCEPT ![p] = "done"]
                    /\ UNCHANGED nextID
            \/ /\ ~failed /\ found = {}
               /\ nextID < MaxImages
               /\ nextID' = nextID + 1
               /\ frame' = [frame EXCEPT ![p] =
                      [f1 EXCEPT !.imageID = nextID + 1, !.gridfsID = nextID + 1]]
               /\ pc' = [pc EXCEPT ![p] = "open"]
    /\ UNCHANGED <<catalog, bucket, chunks, uniqueIndex, clock, stored, hist>>

\* Lines 100-108: GetImageByChecksum, then the identifiers.  A lookup that
\* finds a record returns its ID with ErrImageAlreadyExists; a lookup that
\* finds none, or fails, falls through to xid.New() / NewObjectID().
StoreLookup(p) ==
    /\ At(p, "lookup")
    /\ \E failed \in BOOLEAN :
        LET f1 == [frame[p] EXCEPT !.calls = Append(@, "FindOne"), !.faulted = @ \/ failed]
            found == IF failed THEN {} ELSE ByChecksum(frame[p].checksum)
        IN  \/ /\ found # {}
               /\ \E existing \in found :
                    /\ frame' = [frame EXCEPT ![p] =
                           [f1 EXCEPT !.retID = existing.ImageID,
                                      !.retErr = ErrImageAlreadyExists]]
                    /\ pc' = [pc EXCEPT ![p] = "done"]
                    /\ UNCHANGED nextID
            \/ /\ found = {}
               /\ nextID < MaxImages
               /\ nextID' = nextID + 1
               /\ frame' = [frame EXCEPT ![p] =
                      [f1 EXCEPT !.imageID = nextID + 1, !.gridfsID = nextID + 1]]
               /\ pc' = [pc EXCEPT ![p] = "open"]
    /\ UNCHANGED <<catalog, bucket, chunks, uniqueIndex, clock, stored, hist>>

\* Lines 111-115: OpenUploadStreamWithID; on success Close is deferred.
StoreOpen(p) ==
    /\ At(p, "open")
    /\ \E failed \in BOOLEAN :
        LET f1 == [frame[p] EXCEPT !.calls = Append(@, "OpenUploadStream"), !.faulted = @ \/ failed]
        IN  IF failed
              THEN /\ frame' = [frame EXCEPT ![p] = [f1 EXCEPT !.retErr = ErrOpenUpload]]
                   /\ pc' = [pc EXCEPT ![p] = "done"]
              ELSE /\ frame' = [frame EXCEPT ![p] = f1]
                   /\ pc' = [pc EXCEPT ![p] = "write"]
    /\ UNCHANGED <<catalog, bucket, chunks, uniqueIndex, nextID, clock, stored, hist>>

StoreWriteCommits(p) ==
    /\ At(p, "write")
    /\ \E now \in Readings :
        LET f == frame[p]
        IN  /\ frame' = [frame EXCEPT ![p] =
                   [f EXCEPT !.calls = Append(@, "Write"), !.now = now,
                             !.imageMeta = [ImageID |-> f.imageID, GridFSID |-> f.gridfsID,
                                            OriginalName |-> f.filename,
                                            ContentType |-> f.contentType,
                                            Size |-> Len(f.data), Checksum |-> f.checksum,
                                            Tags |-> f.tags, Metadata |-> f.metadata,
                                            CreatedAt |-> now, UpdatedAt |-> now]]]
            /\ clock' = now
    /\ bucket' = bucket \cup {[ID |-> frame[p].gridfsID, filename |-> frame[p].filename,
                                length |-> Len(frame[p].data)]}
    /\ chunks' = chunks \cup {[files_id |-> frame[p].gridfsID, data |-> frame[p].data]}
    /\ pc' = [pc EXCEPT ![p] = "insert"]
    /\ UNCHANGED <<catalog, uniqueIndex, nextID, stored, hist>>

\* Lines 117-135: uploadStream.Write fills the stream's upload buffer (the
\* fs.files document is written by Close, not here), then time.Now() and
\* the ImageMeta document.  A failed Write returns through the deferred Close.
StoreWrite(p) ==
    /\ At(p, "write")
    /\ \E failed \in BOOLEAN, now \in Readings :
        LET f1 == [frame[p] EXCEPT !.calls = Append(@, "Write"), !.faulted = @ \/ failed]
        IN  IF failed
              THEN /\ frame' = [frame EXCEPT ![p] = [f1 EXCEPT !.retErr = ErrWriteGridFS]]
                   /\ pc' = [pc EXCEPT ![p] = "close"]
                   /\ UNCHANGED clock
              ELSE /\ frame' = [frame EXCEPT ![p] =
                          [f1 EXCEPT !.now = now,
                                     !.imageMeta =
                                        [ImageID |-> f1.imageID,
                                         GridFSID |-> f1.gridfsID,
                                         OriginalName |-> f1.filename,
                                         ContentType |-> f1.contentType,
                                         Size |-> Len(f1.data),
                                         Checksum |-> f1.checksum,
                                         Tags |-> f1.tags,
                                         Metadata |-> f1.metadata,
                                         CreatedAt |-> now,
                                         UpdatedAt |-> now]]]
                   /\ pc' = [pc EXCEPT ![p] = "insert"]
                   /\ clock' = now
    /\ UNCHANGED <<catalog, bucket, chunks, uniqueIndex, nextID, stored, hist>>

\* Line 137: metaCollection.InsertOne.  It is rejected by a backend failure
\* or, where the collection carries a unique index on checksum, by a record
\* with the same checksum.
StoreInsert(p) ==
    /\ At(p, "insert")
    /\ \E failed \in BOOLEAN :
        LET f1 == [frame[p] EXCEPT !.calls = Append(@, "InsertOne"), !.faulted = @ \/ failed]
            duplicate == uniqueIndex /\ ByChecksum(f1.checksum) # {}
        IN  IF failed \/ duplicate
              THEN /\ frame' = [frame EXCEPT ![p] =
                          [f1 EXCEPT !.insertErr = IF failed THEN "err" ELSE "dup"]]
                   /\ pc' = [pc EXCEPT ![p] = "compensate"]
                   /\ UNCHANGED catalog
              ELSE /\ catalog' = catalog \cup {f1.imageMeta}
                   /\ frame' = [frame EXCEPT ![p] =
                          [f1 EXCEPT !.insertErr = "nil", !.retID = f1.imageID]]
                   /\ pc' = [pc EXCEPT ![p] = "close"]
    /\ UNCHANGED <<bucket, chunks, uniqueIndex, nextID, clock, stored, hist>>

\* Lines 138-141: the compensating bucket.Delete(gridfsID), result dropped;
\* first its DeleteOne of the fs.files document.
StoreCompensateFiles(p) ==
    /\ At(p, "compensate")
    /\ \E failed \in BOOLEAN :
        /\ bucket' = BucketDeleteLeaves(frame[p].gridfsID, failed)
        /\ frame' = [frame EXCEPT ![p] =
               [@ EXCEPT !.calls = Append(@, "Delete"), !.faulted = @ \/ failed,
                         !.deleteFault = failed]]
    /\ pc' = [pc EXCEPT ![p] = "compensate_chunks"]
    /\ UNCHANGED <<catalog, chunks, uniqueIndex, nextID, clock, stored, hist>>

\* Line 140, the second call of the compensating bucket.Delete: the delete
\* of the file's chunks.  The body then returns the insert error.
StoreCompensateChunks(p) ==
    /\ At(p, "compensate_chunks")
    /\ \E failed \in BOOLEAN :
        /\ chunks' = ChunksDeleteLeaves(frame[p].gridfsID, failed)
        /\ frame' = [frame EXCEPT ![p] =
               [@ EXCEPT !.faulted = @ \/ failed,
                         !.deleteFault = @ \/ failed,
                         !.retErr = ErrSaveMetadata]]
    /\ pc' = [pc EXCEPT ![p] = "close"]
    /\ UNCHANGED <<catalog, bucket, uniqueIndex, nextID, clock, stored, hist>>

\* Line 115, run at every return after it: the deferred uploadStream.Close()
\* first uploads the buffered chunks; when that fails it creates no fs.files
\* document.  Its error is dropped.
StoreCloseChunks(p) ==
    /\ At(p, "close")
    /\ \E failed \in BOOLEAN :
        /\ chunks' = IF failed THEN chunks
                     ELSE chunks \cup {[files_id |-> frame[p].gridfsID,
                                        data |-> frame[p].data]}
        /\ frame' = [frame EXCEPT ![p] =
               [@ EXCEPT !.calls = Append(@, "Close"), !.faulted = @ \/ failed,
                         !.closeFault = failed]]
        /\ pc' = [pc EXCEPT ![p] = IF failed THEN "done" ELSE "close_files"]
    /\ UNCHANGED <<catalog, bucket, uniqueIndex, nextID, clock, stored, hist>>

StoreCloseFilesAbandons(p) ==
    /\ At(p, "close_files")
    /\ bucket' = IF frame[p].insertErr \in {"err", "dup"} THEN bucket
                 ELSE bucket \cup {[ID |-> frame[p].gridfsID,
                                    filename |-> frame[p].filename,
                                    length |-> Len(frame[p].data)]}
    /\ pc' = [pc EXCEPT ![p] = "done"]
    /\ UNCHANGED <<catalog, chunks, uniqueIndex, nextID, clock, frame, stored, hist>>

\* Line 115, the second call of the deferred Close: the insert of the
\* fs.files document, which is what makes the blob enumerable, readable and
\* deletable.  Its error is dropped; the call then returns what the body
\* decided.
StoreCloseFiles(p) ==
    /\ At(p, "close_files")
    /\ \E failed \in BOOLEAN :
        /\ bucket' = IF failed THEN bucket
                     ELSE bucket \cup {[ID |-> frame[p].gridfsID,
                                    filename |-> frame[p].filename,
                                    length |-> Len(frame[p].data)]}
        /\ frame' = [frame EXCEPT ![p] =
               [@ EXCEPT !.faulted = @ \/ failed, !.closeFault = failed]]
    /\ pc' = [pc EXCEPT ![p] = "done"]
    /\ UNCHANGED <<catalog, chunks, uniqueIndex, nextID, clock, stored, hist>>

(***************************************************************************)
(* GetImageMeta (src/image.go:149-159) as the first step of DeleteImage   *)
(* and GetImageData: the result of FindOne by imageID.                     *)
(***************************************************************************)
GetImageMetaErrSwapped(failed, found) ==
    IF failed THEN ErrImageNotFound
    ELSE IF found = {} THEN ErrGetMetadata
    ELSE NilErr

\* The error GetImageMeta returns: a backend failure is wrapped, no
\* document is ErrImageNotFound.
GetImageMetaErr(failed, found) ==
    IF failed THEN ErrGetMetadata
    ELSE IF found = {} THEN ErrImageNotFound
    ELSE NilErr

(***************************************************************************)
(* DeleteImage (src/image.go:222-243).                                     *)
(***************************************************************************)
\* Lines 222-227: the call and its GetImageMeta.
DeleteMeta(p) ==
    /\ Idle(p)
    /\ \E id \in ImageIDInputs, failed \in BOOLEAN :
        LET found == ByImageID(id)
            err == GetImageMetaErr(failed, found)
            f0 == [NoFrame EXCEPT !.op = "DeleteImage", !.argID = id,
                                  !.absent = (found = {}),
                                  !.calls = <<"FindOne">>, !.faulted = failed]
        IN  IF err # NilErr
              THEN /\ frame' = [frame EXCEPT ![p] = [f0 EXCEPT !.retErr = err]]
                   /\ pc' = [pc EXCEPT ![p] = "done"]
              ELSE /\ \E imageMeta \in found :
                        frame' = [frame EXCEPT ![p] = [f0 EXCEPT !.imageMeta = imageMeta]]
                   /\ pc' = [pc EXCEPT ![p] = "d_blob"]
    /\ hist' = Started("DeleteImage")
    /\ UNCHANGED <<catalog, bucket, chunks, uniqueIndex, nextID, clock, stored>>

\* Line 230: bucket.Delete(imageMeta.GridFSID), first its DeleteOne of the
\* fs.files document; its error is kept while the chunks are deleted.
DeleteBlobFiles(p) ==
    /\ At(p, "d_blob")
    /\ \E failed \in BOOLEAN :
        LET g == frame[p].imageMeta.GridFSID
        IN  /\ bucket' = BucketDeleteLeaves(g, failed)
            /\ frame' = [frame EXCEPT ![p] =
                   [@ EXCEPT !.calls = Append(@, "Delete"), !.faulted = @ \/ failed,
                             !.filesErr = FilesDeleteFails(g, failed)]]
    /\ pc' = [pc EXCEPT ![p] = "d_chunks"]
    /\ UNCHANGED <<catalog, chunks, uniqueIndex, nextID, clock, stored, hist>>

\* Lines 230-233: the second call of bucket.Delete, the delete of the file's
\* chunks; an error of either call, or no such file, ends DeleteImage with
\* the record left in place, whatever the Delete has removed of the file.
DeleteBlobChunks(p) ==
    /\ At(p, "d_chunks")
    /\ \E failed \in BOOLEAN :
        LET g == frame[p].imageMeta.GridFSID
            f1 == [frame[p] EXCEPT !.faulted = @ \/ failed, !.filesErr = FALSE]
        IN  /\ chunks' = ChunksDeleteLeaves(g, failed)
            /\ IF frame[p].filesErr \/ failed
                 THEN /\ frame' = [frame EXCEPT ![p] = [f1 EXCEPT !.retErr = ErrDeleteGridFS]]
                      /\ pc' = [pc EXCEPT ![p] = "done"]
                 ELSE /\ frame' = [frame EXCEPT ![p] = f1]
                      /\ pc' = [pc EXCEPT ![p] = "d_record"]
    /\ UNCHANGED <<catalog, bucket, uniqueIndex, nextID, clock, stored, hist>>

\* Lines 235-242: metaCollection.DeleteOne by imageID.
DeleteRecord(p) ==
    /\ At(p, "d_record")
    /\ \E failed \in BOOLEAN :
        LET f1 == [frame[p] EXCEPT !.calls = Append(@, "DeleteOne"), !.faulted = @ \/ failed]
            err == IF failed THEN ErrDeleteMetadata ELSE NilErr
        IN  /\ catalog' = IF failed THEN catalog ELSE catalog \ ByImageID(f1.argID)
            /\ frame' = [frame EXCEPT ![p] = [f1 EXCEPT !.retErr = err]]
    /\ pc' = [pc EXCEPT ![p] = "done"]
    /\ UNCHANGED <<bucket, chunks, uniqueIndex, nextID, clock, stored, hist>>

(***************************************************************************)
(* GetImageData (src/image.go:175-189).                                    *)
(***************************************************************************)
\* Lines 175-180: the call and its GetImageMeta.
GetDataMeta(p) ==
    /\ Idle(p)
    /\ \E id \in ImageIDInputs, failed \in BOOLEAN :
        LET found == ByImageID(id)
            err == GetImageMetaErr(failed, found)
            f0 == [NoFrame EXCEPT !.op = "GetImageData", !.argID = id,
                                  !.absent = (found = {}),
                                  !.calls = <<"FindOne">>, !.faulted = failed]
        IN  IF err # NilErr
              THEN /\ frame' = [frame EXCEPT ![p] = [f0 EXCEPT !.retErr = err]]
                   /\ pc' = [pc EXCEPT ![p] = "done"]
              ELSE /\ \E imageMeta \in found :
                        frame' = [frame EXCEPT ![p] = [f0 EXCEPT !.imageMeta = imageMeta]]
                   /\ pc' = [pc EXCEPT ![p] = "g_open"]
    /\ hist' = Started("GetImageData")
    /\ UNCHANGED <<catalog, bucket, chunks, uniqueIndex, nextID, clock, stored>>

\* Lines 182-185, first half: bucket.OpenDownloadStream(imageMeta.GridFSID)
\* looks the fs.files document up; none is ErrFileNotFound, and a file of
\* length zero gets a stream without a chunk query.
GetDataOpen(p) ==
    /\ At(p, "g_open")
    /\ \E failed \in BOOLEAN :
        LET files == {f \in bucket : f.ID = frame[p].imageMeta.GridFSID}
            f1 == [frame[p] EXCEPT !.calls = Append(@, "OpenDownloadStream"), !.faulted = @ \/ failed]
        IN  IF failed \/ files = {}
              THEN /\ frame' = [frame EXCEPT ![p] =
                          [f1 EXCEPT !.retErr = ErrOpenDownload, !.imageMeta = NoMeta]]
                   /\ pc' = [pc EXCEPT ![p] = "done"]
              ELSE /\ frame' = [frame EXCEPT ![p] = f1]
                   /\ pc' = [pc EXCEPT ![p] =
                          IF \E f \in files : f.length = 0 THEN "done" ELSE "g_chunks"]
    /\ UNCHANGED <<catalog, bucket, chunks, uniqueIndex, nextID, clock, stored, hist>>

\* The bytes the download stream of file g delivers: those of the chunks its
\* chunk query finds.
StreamOf(g) == IF ChunksOf(g) = {} THEN <<>> ELSE (CHOOSE c \in ChunksOf(g) : TRUE).data

\* Lines 182-188, second half: OpenDownloadStream queries the chunks of the
\* file it found and returns the stream over them; the stream of a file
\* whose chunks are gone is returned all the same, with a nil error, and
\* delivers nothing.
GetDataChunks(p) ==
    /\ At(p, "g_chunks")
    /\ \E failed \in BOOLEAN :
        LET g == frame[p].imageMeta.GridFSID
            f1 == [frame[p] EXCEPT !.faulted = @ \/ failed]
        IN  frame' = [frame EXCEPT ![p] =
                IF failed
                  THEN [f1 EXCEPT !.retErr = ErrOpenDownload, !.imageMeta = NoMeta]
                  ELSE [f1 EXCEPT !.retStream = StreamOf(g),
                                  !.missing = (ChunksOf(g) = {})]]
    /\ pc' = [pc EXCEPT ![p] = "done"]
    /\ UNCHANGED <<catalog, bucket, chunks, uniqueIndex, nextID, clock, stored, hist>>

(***************************************************************************)
(* DownloadImageToFile (src/image.go:192-219).                             *)
(***************************************************************************)
\* Line 193, first half: GetImageData's GetImageMeta.
DownloadMeta(p) ==
    /\ Idle(p)
    /\ \E id \in ImageIDInputs, failed \in BOOLEAN :
        LET found == ByImageID(id)
            err == GetImageMetaErr(failed, found)
            f0 == [NoFrame EXCEPT !.op = "DownloadImageToFile", !.argID = id,
                                  !.absent = (found = {}),
                                  !.calls = <<"FindOne">>, !.faulted = failed]
        IN  IF err # NilErr
              THEN /\ frame' = [frame EXCEPT ![p] = [f0 EXCEPT !.retErr = err]]
                   /\ pc' = [pc EXCEPT ![p] = "done"]
              ELSE /\ \E imageMeta \in found :
                        frame' = [frame EXCEPT ![p] = [f0 EXCEPT !.imageMeta = imageMeta]]
                   /\ pc' = [pc EXCEPT ![p] = "dl_open"]
    /\ hist' = Started("DownloadImageToFile")
    /\ UNCHANGED <<catalog, bucket, chunks, uniqueIndex, nextID, clock, stored>>

\* Lines 193-197, second half: GetImageData's OpenDownloadStream, the lookup
\* of the fs.files document; its error is returned as it is.
DownloadOpen(p) ==
    /\ At(p, "dl_open")
    /\ \E failed \in BOOLEAN :
        LET files == {f \in bucket : f.ID = frame[p].imageMeta.GridFSID}
            f1 == [frame[p] EXCEPT !.calls = Append(@, "OpenDownloadStream"), !.faulted = @ \/ failed]
        IN  IF failed \/ files = {}
              THEN /\ frame' = [frame EXCEPT ![p] = [f1 EXCEPT !.retErr = ErrOpenDownload]]
                   /\ pc' = [pc EXCEPT ![p] = "done"]
              ELSE /\ frame' = [frame EXCEPT ![p] = f1]
                   /\ pc' = [pc EXCEPT ![p] =
                          IF \E f \in files : f.length = 0 THEN "dl_copy" ELSE "dl_chunks"]
    /\ UNCHANGED <<catalog, bucket, chunks, uniqueIndex, nextID, clock, stored, hist>>

\* Lines 193-197, the rest of OpenDownloadStream: the query of the file's
\* chunks.
DownloadChunks(p) ==
    /\ At(p, "dl_chunks")
    /\ \E failed \in BOOLEAN :
        LET g == frame[p].imageMeta.GridFSID
            f1 == [frame[p] EXCEPT !.faulted = @ \/ failed]
        IN  IF failed
              THEN /\ frame' = [frame EXCEPT ![p] = [f1 EXCEPT !.retErr = ErrOpenDownload]]
                   /\ pc' = [pc EXCEPT ![p] = "done"]
              ELSE /\ frame' = [frame EXCEPT ![p] =
                          [f1 EXCEPT !.retStream = StreamOf(g),
                                     !.missing = (ChunksOf(g) = {})]]
                   /\ pc' = [pc EXCEPT ![p] = "dl_copy"]
    /\ UNCHANGED <<catalog, bucket, chunks, uniqueIndex, nextID, clock, stored, hist>>

\* Lines 199-218: MkdirAll, Create, io.Copy.  The copy may stop with an
\* error after any number of bytes (a failing read, a full disk); the file
\* then holds what was copied.  A stream whose chunks are gone ends the copy
\* with the driver's ErrMissingChunk, or, under a driver that does not count
\* the chunks, with a plain end of file: an empty file and a nil error.
DownloadCopy(p) ==
    /\ At(p, "dl_copy")
    /\ \E mkdirOK \in BOOLEAN, createOK \in BOOLEAN,
          copied \in 0..Len(frame[p].retStream), copyFailed \in BOOLEAN,
          reported \in BOOLEAN :
        LET stream == frame[p].retStream
            f1 == [frame[p] EXCEPT !.calls = Append(@, "Copy"),
                                   !.faulted = @ \/ ~mkdirOK \/ ~createOK \/ copyFailed]
            copyErr == copyFailed \/ (frame[p].missing /\ reported)
        IN  /\ copyFailed \/ copied = Len(stream)
            /\ frame' = [frame EXCEPT ![p] =
                   IF ~mkdirOK THEN [f1 EXCEPT !.retErr = ErrCreateDir]
                   ELSE IF ~createOK THEN [f1 EXCEPT !.retErr = ErrCreateFile]
                   ELSE [f1 EXCEPT !.written = SubSeq(stream, 1, copied),
                                   !.retErr = IF copyErr THEN ErrDownload ELSE NilErr]]
    /\ pc' = [pc EXCEPT ![p] = "done"]
    /\ UNCHANGED <<catalog, bucket, chunks, uniqueIndex, nextID, clock, stored, hist>>

(***************************************************************************)
(* ListImages (src/image.go:246-281).                                      *)
(***************************************************************************)
Range(q) == {q[i] : i \in DOMAIN q}

\* Lines 247-250: the filter; {"tags": {"$in": tags}} matches a record one
\* of whose tags equals one of the values.
ListFilter(tags) ==
    IF Len(tags) > 0
      THEN {r \in catalog : \E i \in DOMAIN r.Tags : \E j \in DOMAIN tags : r.Tags[i] = tags[j]}
      ELSE catalog

SortAscending(S) ==
    {q \in [1..Cardinality(S) -> S] :
        /\ \A i, j \in DOMAIN q : i # j => q[i] # q[j]
        /\ \A i, j \in DOMAIN q : i < j => q[i].CreatedAt <= q[j].CreatedAt}

\* Line 259: sort {"createdAt": -1}.  The order among records of equal
\* createdAt is the server's choice.
SortDescending(S) ==
    {q \in [1..Cardinality(S) -> S] :
        /\ \A i, j \in DOMAIN q : i # j => q[i] # q[j]
        /\ \A i, j \in DOMAIN q : i < j => q[i].CreatedAt >= q[j].CreatedAt}

\* Lines 252-258: SetLimit only for a positive limit, SetSkip only for a
\* positive offset; the server skips, then limits, the sorted documents.
SkipLimit(q, limit, offset) ==
    LET skipped == IF offset > 0 THEN SubSeq(q, offset + 1, Len(q)) ELSE q
    IN  IF limit > 0 /\ limit < Len(skipped) THEN SubSeq(skipped, 1, limit) ELSE skipped

\* Lines 246-281: Find and the iteration of its cursor.
ListFind(p) ==
    /\ Idle(p)
    /\ \E tags \in TagFilters, limit \in Limits, offset \in Offsets,
          err \in {NilErr, ErrFindImages, ErrCursor} :
        LET f0 == [NoFrame EXCEPT !.op = "ListImages", !.tags = tags,
                                  !.limit = limit, !.offset = offset,
                                  !.calls = <<"Find">>, !.faulted = (err # NilErr),
                                  !.quiet = \A q \in Procs : pc[q] = "idle"]
        IN  IF err # NilErr
              THEN frame' = [frame EXCEPT ![p] = [f0 EXCEPT !.retErr = err]]
              ELSE \E sorted \in SortDescending(ListFilter(tags)) :
                      frame' = [frame EXCEPT ![p] =
                          [f0 EXCEPT !.retList = SkipLimit(sorted, limit, offset)]]
    /\ pc' = [pc EXCEPT ![p] = "done"]
    /\ hist' = Started("ListImages")
    /\ UNCHANGED <<catalog, bucket, chunks, uniqueIndex, nextID, clock, stored>>

(***************************************************************************)
(* GetImageStats (src/image.go:326-366).                                   *)
(***************************************************************************)
RECURSIVE SumSize(_)
\* {"$sum": "$size"} over a set of documents.
SumSize(S) ==
    IF S = {} THEN 0
    ELSE LET r == CHOOSE x \in S : TRUE IN r.Size + SumSize(S \ {r})

\* Lines 334-357: the $group stage over the whole collection.  avgSize is
\* a float64, kept here as the fraction <<numerator, denominator>>; with no
\* document the pipeline yields no row and result keeps its zero values.
AggregateSizes ==
    IF catalog = {} THEN [totalSize |-> 0, avgSize |-> <<0, 1>>]
    ELSE [totalSize |-> SumSize(catalog),
          avgSize |-> <<SumSize(catalog), Cardinality(catalog)>>]

\* Lines 326-331: CountDocuments over the whole collection.
StatsCount(p) ==
    /\ Idle(p)
    /\ \E failed \in BOOLEAN :
        LET f0 == [NoFrame EXCEPT !.op = "GetImageStats",
                                  !.calls = <<"CountDocuments">>, !.faulted = failed,
                                  !.seen = <<catalog, bucket, chunks>>, !.quiet = ~failed]
        IN  IF failed
              THEN /\ frame' = [frame EXCEPT ![p] = [f0 EXCEPT !.retErr = ErrCountImages]]
                   /\ pc' = [pc EXCEPT ![p] = "done"]
              ELSE /\ frame' = [frame EXCEPT ![p] =
                          [f0 EXCEPT !.totalCount = Cardinality(catalog)]]
                   /\ pc' = [pc EXCEPT ![p] = "s_aggregate"]
    /\ hist' = Started("GetImageStats")
    /\ UNCHANGED <<catalog, bucket, chunks, uniqueIndex, nextID, clock, stored>>

\* Lines 333-365: the Aggregate call and the stats map.
StatsAggregate(p) ==
    /\ At(p, "s_aggregate")
    /\ \E failed \in BOOLEAN :
        LET f1 == [frame[p] EXCEPT !.calls = Append(@, "Aggregate"), !.faulted = @ \/ failed,
                                   !.quiet = @ /\ ~failed /\ frame[p].seen[1] = catalog]
            result == AggregateSizes
        IN  IF failed
              THEN frame' = [frame EXCEPT ![p] = [f1 EXCEPT !.retErr = ErrAggregate]]
              ELSE frame' = [frame EXCEPT ![p] =
                       [f1 EXCEPT !.retStats = [totalCount |-> f1.totalCount,
                                                totalSize |-> result.totalSize,
                                                avgSize |-> result.avgSize]]]
    /\ pc' = [pc EXCEPT ![p] = "done"]
    /\ UNCHANGED <<catalog, bucket, chunks, uniqueIndex, nextID, clock, stored, hist>>

(***************************************************************************)
(* UpdateImageTags (src/image.go:284-302) and UpdateImageMetadata         *)
(* (src/image.go:305-323).                                                 *)
(***************************************************************************)
\* Lines 285-290: the $set document, with time.Now() read by the caller.
UpdateTagsBegin(p) ==
    /\ Idle(p)
    /\ \E id \in ImageIDInputs, tags \in NewTagInputs, now \in Readings :
        /\ frame' = [frame EXCEPT ![p] =
               [NoFrame EXCEPT !.op = "UpdateImageTags", !.argID = id,
                               !.absent = (ByImageID(id) = {}),
                               !.tags = tags, !.now = now]]
        /\ clock' = now
    /\ pc' = [pc EXCEPT ![p] = "u_tags"]
    /\ hist' = Started("UpdateImageTags")
    /\ UNCHANGED <<catalog, bucket, chunks, uniqueIndex, nextID, stored>>

UpdateTagsApplyReplaces(p) ==
    /\ At(p, "u_tags")
    /\ LET matched == ByImageID(frame[p].argID)
       IN  /\ catalog' = (catalog \ matched) \cup
                          {[r EXCEPT !.Tags = frame[p].tags, !.Metadata = "none",
                                     !.UpdatedAt = frame[p].now] : r \in matched}
           /\ frame' = [frame EXCEPT ![p] =
                  [@ EXCEPT !.calls = Append(@, "UpdateOne"),
                            !.retErr = IF matched = {} THEN ErrImageNotFound ELSE NilErr]]
    /\ pc' = [pc EXCEPT ![p] = "done"]
    /\ UNCHANGED <<bucket, chunks, uniqueIndex, nextID, clock, stored, hist>>

\* Lines 292-301: UpdateOne by imageID; MatchedCount 0 is ErrImageNotFound.
UpdateTagsApply(p) ==
    /\ At(p, "u_tags")
    /\ \E failed \in BOOLEAN :
        LET f1 == [frame[p] EXCEPT !.calls = Append(@, "UpdateOne"), !.faulted = @ \/ failed]
            matched == ByImageID(f1.argID)
            err == IF failed THEN ErrUpdateTags
                   ELSE IF matched = {} THEN ErrImageNotFound
                   ELSE NilErr
        IN  /\ catalog' = IF err # NilErr THEN catalog
                          ELSE (catalog \ matched) \cup
                               {[r EXCEPT !.Tags = f1.tags, !.UpdatedAt = f1.now] : r \in matched}
            /\ frame' = [frame EXCEPT ![p] = [f1 EXCEPT !.retErr = err]]
    /\ pc' = [pc EXCEPT ![p] = "done"]
    /\ UNCHANGED <<bucket, chunks, uniqueIndex, nextID, clock, stored, hist>>

\* Lines 306-311.
UpdateMetadataBegin(p) ==
    /\ Idle(p)
    /\ \E id \in ImageIDInputs, metadata \in NewMetadataInputs, now \in Readings :
        /\ frame' = [frame EXCEPT ![p] =
               [NoFrame EXCEPT !.op = "UpdateImageMetadata", !.argID = id,
                               !.absent = (ByImageID(id) = {}),
                               !.metadata = metadata, !.now = now]]
        /\ clock' = now
    /\ pc' = [pc EXCEPT ![p] = "u_metadata"]
    /\ hist' = Started("UpdateImageMetadata")
    /\ UNCHANGED <<catalog, bucket, chunks, uniqueIndex, nextID, stored>>

\* Lines 313-322.
UpdateMetadataApply(p) ==
    /\ At(p, "u_metadata")
    /\ \E failed \in BOOLEAN :
        LET f1 == [frame[p] EXCEPT !.calls = Append(@, "UpdateOne"), !.faulted = @ \/ failed]
            matched == ByImageID(f1.argID)
            err == IF failed THEN ErrUpdateMetadata
                   ELSE IF matched = {} THEN ErrImageNotFound
                   ELSE NilErr
        IN  /\ catalog' = IF err # NilErr THEN catalog
                          ELSE (catalog \ matched) \cup
                               {[r EXCEPT !.Metadata = f1.metadata, !.UpdatedAt = f1.now] :
                                   r \in matched}
            /\ frame' = [frame EXCEPT ![p] = [f1 EXCEPT !.retErr = err]]
    /\ pc' = [pc EXCEPT ![p] = "done"]
    /\ UNCHANGED <<bucket, chunks, uniqueIndex, nextID, clock, stored, hist>>

(***************************************************************************)
(* CleanupOrphanedFiles (src/image.go:369-404).                            *)
(***************************************************************************)
\* The files no catalog record references, and the records whose blob is
\* missing: its fs.files document, or its chunks, are not in the bucket.
Orphans == {g \in BucketIDs : ByGridFSID(g) = {}}
Dangling == {r.ImageID : r \in {x \in catalog : ~Readable(x.GridFSID)}}

\* Whether the sweep of p ran undisturbed so far: no backend call of it
\* failed and both stores are as its previous step left them.
StillQuiet(p, failed) ==
    frame[p].quiet /\ ~failed /\ frame[p].seen = <<catalog, bucket, chunks>>

\* What a disturbed sweep found at its start is of no interest any more.
Settled(f) ==
    IF f.quiet THEN f
    ELSE [f EXCEPT !.startOrphans = {}, !.startDangling = {},
                   !.scenario = FALSE, !.seen = <<>>]

\* The sweep returns orphanedCount with a nil error.
CleanupReturns(p, f1) ==
    /\ frame' = [frame EXCEPT ![p] = Settled(f1)]
    /\ pc' = [pc EXCEPT ![p] = "done"]

\* Lines 369-377: the call and bucket.Find(bson.M{}), the enumeration of
\* the fs.files documents.
CleanupFind(p) ==
    /\ Idle(p)
    /\ \E failed \in BOOLEAN :
        LET f0 == [NoFrame EXCEPT !.op = "CleanupOrphanedFiles",
                                  !.calls = <<"Find">>, !.faulted = failed,
                                  !.startBlobs = BucketIDs,
                                  !.startOrphans = Orphans,
                                  !.startDangling = Dangling,
                                  !.scenario = /\ hist.pristine
                                               /\ Cardinality(hist.midCrashed) = 1
                                               /\ \A q \in Procs : pc[q] = "idle",
                                  !.seen = <<catalog, bucket, chunks>>,
                                  !.quiet = ~failed]
        IN  IF failed
              THEN CleanupReturns(p, [f0 EXCEPT !.retErr = ErrListGridFS])
              ELSE IF BucketIDs = {}
              THEN /\ frame' = [frame EXCEPT ![p] = f0]
                   /\ pc' = [pc EXCEPT ![p] = "done"]
              ELSE /\ frame' = [frame EXCEPT ![p] = [f0 EXCEPT !.cursor = BucketIDs]]
                   /\ pc' = [pc EXCEPT ![p] = "c_next"]
    /\ hist' = Started("CleanupOrphanedFiles")
    /\ UNCHANGED <<catalog, bucket, chunks, uniqueIndex, nextID, clock, stored>>

\* Lines 378-393: the next enumerated file and CountDocuments by gridfsID.
\* A failed count skips the file; a count of zero marks it for deletion.
CleanupCheck(p) ==
    /\ At(p, "c_next")
    /\ \E file \in frame[p].cursor, failed \in BOOLEAN :
        LET count == Cardinality(ByGridFSID(file))
            f1 == [frame[p] EXCEPT !.calls = Append(@, "CountDocuments"), !.faulted = @ \/ failed,
                                   !.cursor = @ \ {file},
                                   !.quiet = StillQuiet(p, failed)]
        IN  IF ~failed /\ count = 0
              THEN /\ frame' = [frame EXCEPT ![p] = Settled([f1 EXCEPT !.file = file])]
                   /\ pc' = [pc EXCEPT ![p] = "c_delete"]
              ELSE IF f1.cursor = {}
              THEN CleanupReturns(p, f1)
              ELSE /\ frame' = [frame EXCEPT ![p] = Settled(f1)]
                   /\ UNCHANGED pc
    /\ UNCHANGED <<catalog, bucket, chunks, uniqueIndex, nextID, clock, stored, hist>>

CleanupDeleteFilesRepairs(p) ==
    /\ At(p, "c_delete")
    /\ bucket' = BucketAfterDelete(frame[p].file)
    /\ catalog' = {r \in catalog : r.GridFSID \in BucketIDs}
    /\ frame' = [frame EXCEPT ![p] = [@ EXCEPT !.calls = Append(@, "Delete")]]
    /\ pc' = [pc EXCEPT ![p] = "c_chunks"]
    /\ UNCHANGED <<chunks, uniqueIndex, nextID, clock, stored, hist>>

\* Line 394: bucket.Delete(file.ID), first its DeleteOne of the fs.files
\* document; its error is kept while the chunks are deleted.
CleanupDeleteFiles(p) ==
    /\ At(p, "c_delete")
    /\ \E failed \in BOOLEAN :
        LET file == frame[p].file
            f1 == [frame[p] EXCEPT !.calls = Append(@, "Delete"),
                                   !.faulted = @ \/ failed,
                                   !.filesErr = FilesDeleteFails(file, failed),
                                   !.quiet = StillQuiet(p, failed),
                                   !.seen = <<catalog, BucketDeleteLeaves(file, failed), chunks>>]
        IN  /\ bucket' = BucketDeleteLeaves(file, failed)
            /\ frame' = [frame EXCEPT ![p] = Settled(f1)]
    /\ pc' = [pc EXCEPT ![p] = "c_chunks"]
    /\ UNCHANGED <<catalog, chunks, uniqueIndex, nextID, clock, stored, hist>>

\* Lines 394-399: the second call of bucket.Delete, the delete of the
\* file's chunks; only a Delete that returned nil is counted, a failed one
\* is logged and the sweep goes on, whatever it has removed of the file.
CleanupDeleteChunks(p) ==
    /\ At(p, "c_chunks")
    /\ \E failed \in BOOLEAN :
        LET file == frame[p].file
            deleted == ~frame[p].filesErr /\ ~failed
            f1 == [frame[p] EXCEPT !.faulted = @ \/ failed,
                                   !.file = UnknownID,
                                   !.filesErr = FALSE,
                                   !.orphanedCount = IF deleted THEN @ + 1 ELSE @,
                                   !.quiet = StillQuiet(p, failed),
                                   !.seen = <<catalog, bucket, ChunksDeleteLeaves(file, failed)>>]
        IN  /\ chunks' = ChunksDeleteLeaves(file, failed)
            /\ IF f1.cursor = {}
                 THEN CleanupReturns(p, f1)
                 ELSE /\ frame' = [frame EXCEPT ![p] = Settled(f1)]
                      /\ pc' = [pc EXCEPT ![p] = "c_next"]
    /\ UNCHANGED <<catalog, bucket, uniqueIndex, nextID, clock, stored, hist>>

\* Line 378: gridfsFiles.Next returns false on a cursor error or a cancelled
\* context as well; the loop ends and the count so far is returned.
CleanupCursorFails(p) ==
    /\ At(p, "c_next")
    /\ CleanupReturns(p, [frame[p] EXCEPT !.calls = Append(@, "Next"),
                                          !.cursor = {}, !.faulted = TRUE,
                                          !.quiet = FALSE])
    /\ UNCHANGED <<catalog, bucket, chunks, uniqueIndex, nextID, clock, stored, hist>>

(***************************************************************************)
(* The callers.                                                            *)
(***************************************************************************)
\* The process of a caller dies inside a call: nothing of the call runs
\* any more, its deferred Close included.
Crash(p) ==
    /\ pc[p] \notin {"idle", "done"}
    /\ \A q \in Procs : pc[q] # "done"
    /\ hist' = IF frame[p].op = "StoreImageFromReader" /\ pc[p] = "insert"
                 THEN [hist EXCEPT !.midCrashed = @ \cup {frame[p].gridfsID}]
                 ELSE [hist EXCEPT !.pristine = FALSE]
    /\ pc' = [pc EXCEPT ![p] = "idle"]
    /\ frame' = [frame EXCEPT ![p] = NoFrame]
    /\ UNCHANGED <<catalog, bucket, chunks, uniqueIndex, nextID, clock, stored>>

\* The caller takes the results of its call; the history notes how it ended.
Return(p) ==
    /\ pc[p] = "done"
    /\ pc' = [pc EXCEPT ![p] = "idle"]
    /\ frame' = [frame EXCEPT ![p] = NoFrame]
    /\ stored' = IF frame[p].op = "StoreImageFromReader" /\ frame[p].retErr = NilErr
                   THEN stored \cup {<<frame[p].checksum, frame[p].retID>>}
                   ELSE stored
    /\ hist' = [hist EXCEPT !.pristine = @ /\ frame[p].retErr = NilErr /\ ~frame[p].faulted]
    /\ UNCHANGED <<catalog, bucket, chunks, uniqueIndex, nextID, clock>>

Next ==
    \E p \in Procs :
        \/ Return(p)
        \/ Crash(p)
        \/ StoreBegin(p)
        \/ StoreLookup(p)
        \/ StoreOpen(p)
        \/ StoreWrite(p)
        \/ StoreInsert(p)
        \/ StoreCompensateFiles(p)
        \/ StoreCompensateChunks(p)
        \/ StoreCloseChunks(p)
        \/ StoreCloseFiles(p)
        \/ DeleteMeta(p)
        \/ DeleteBlobFiles(p)
        \/ DeleteBlobChunks(p)
        \/ DeleteRecord(p)
        \/ GetDataMeta(p)
        \/ GetDataOpen(p)
        \/ GetDataChunks(p)
        \/ CleanupFind(p)
        \/ CleanupCheck(p)
        \/ CleanupDeleteFiles(p)
        \/ CleanupDeleteChunks(p)
        \/ CleanupCursorFails(p)

\* Callers that only store, and do not crash.
NextStore ==
    \E p \in Procs :
        \/ Return(p)
        \/ StoreBegin(p)
        \/ StoreLookup(p)
        \/ StoreOpen(p)
        \/ StoreWrite(p)
        \/ StoreInsert(p)
        \/ StoreCompensateFiles(p)
        \/ StoreCompensateChunks(p)
        \/ StoreCloseChunks(p)
        \/ StoreCloseFiles(p)

\* Callers that store and delete images.
NextDelete ==
    \E p \in Procs :
        \/ Return(p)
        \/ StoreBegin(p)
        \/ StoreLookup(p)
        \/ StoreOpen(p)
        \/ StoreWrite(p)
        \/ StoreInsert(p)
        \/ StoreCompensateFiles(p)
        \/ StoreCompensateChunks(p)
        \/ StoreCloseChunks(p)
        \/ StoreCloseFiles(p)
        \/ DeleteMeta(p)
        \/ DeleteBlobFiles(p)
        \/ DeleteBlobChunks(p)
        \/ DeleteRecord(p)

\* Callers that store, delete and read images.
NextRead ==
    \E p \in Procs :
        \/ Return(p)
        \/ StoreBegin(p)
        \/ StoreLookup(p)
        \/ StoreOpen(p)
        \/ StoreWrite(p)
        \/ StoreInsert(p)
        \/ StoreCompensateFiles(p)
        \/ StoreCompensateChunks(p)
        \/ StoreCloseChunks(p)
        \/ StoreCloseFiles(p)
        \/ DeleteMeta(p)
        \/ DeleteBlobFiles(p)
        \/ DeleteBlobChunks(p)
        \/ DeleteRecord(p)
        \/ GetDataMeta(p)
        \/ GetDataOpen(p)
        \/ GetDataChunks(p)
        \/ DownloadMeta(p)
        \/ DownloadOpen(p)
        \/ DownloadChunks(p)
        \/ DownloadCopy(p)

\* Callers that list the images of a filled store.
NextList ==
    \E p \in Procs :
        \/ Return(p)
        \/ ListFind(p)

\* Callers that store and delete images and ask for the statistics.
NextStats ==
    \E p \in Procs :
        \/ Return(p)
        \/ StoreBegin(p)
        \/ StoreLookup(p)
        \/ StoreOpen(p)
        \/ StoreWrite(p)
        \/ StoreInsert(p)
        \/ StoreCompensateFiles(p)
        \/ StoreCompensateChunks(p)
        \/ StoreCloseChunks(p)
        \/ StoreCloseFiles(p)
        \/ DeleteMeta(p)
        \/ DeleteBlobFiles(p)
        \/ DeleteBlobChunks(p)
        \/ DeleteRecord(p)
        \/ StatsCount(p)
        \/ StatsAggregate(p)

\* Callers that update the tags and custom metadata of images, one of them
\* storing images as well.
Storer == "c1"

NextUpdate ==
    \/ StoreBegin(Storer)
    \/ StoreLookup(Storer)
    \/ StoreOpen(Storer)
    \/ StoreWrite(Storer)
    \/ StoreInsert(Storer)
    \/ StoreCompensateFiles(Storer)
    \/ StoreCompensateChunks(Storer)
    \/ StoreCloseChunks(Storer)
    \/ StoreCloseFiles(Storer)
    \/ \E p \in Procs :
        \/ Return(p)
        \/ UpdateTagsBegin(p)
        \/ UpdateTagsApply(p)
        \/ UpdateMetadataBegin(p)
        \/ UpdateMetadataApply(p)

\* The repository as it is: no unique index on checksum is ever created.
\* Stores, deletes, reads and sweeps with crashes; nothing checked of them
\* reads a timestamp, so the clock is at its last reading.
Spec == InitLate /\ [][Next]_vars

\* Sequences of StoreImageFromReader calls alone.
SpecStore == Init /\ [][NextStore]_vars

\* Stores and deletes.
SpecDelete == Init /\ [][NextDelete]_vars

\* Stores, deletes and reads.
SpecRead == Init /\ [][NextRead]_vars

\* Listings of a filled store.
SpecList == InitFilled /\ [][NextList]_vars

\* Stores, deletes and statistics.
SpecStats == Init /\ [][NextStats]_vars

\* Stores and updates.
SpecUpdate == Init /\ [][NextUpdate]_vars

\* The same store on a collection that carries a unique index on checksum.
SpecUniqueIndex == InitUniqueIndex /\ [][Next]_vars

(***************************************************************************)
(* Properties.                                                             *)
(***************************************************************************)
IsDone(p, op) == pc[p] = "done" /\ frame[p].op = op
StoreDone(p) == IsDone(p, "StoreImageFromReader") /\ frame[p].retErr # ErrReadData
CatalogIDs == {r.ImageID : r \in catalog}

\* C1: once a Store of payload P has returned an ID with a nil error and that
\* record is still in the catalog, a later Store of P (none of whose backend
\* calls fails) returns that ID with ErrImageAlreadyExists and generates no
\* identifier, so writes no blob and no record.
C1_StoreTwiceSameID ==
    \A p \in Procs :
        StoreDone(p) /\ ~frame[p].faulted =>
            \A id \in frame[p].prior :
                id \in CatalogIDs =>
                    /\ frame[p].retID = id
                    /\ frame[p].retErr = ErrImageAlreadyExists
                    /\ frame[p].imageID = UnknownID

\* C2: in every reachable state the catalog holds at most one record per
\* checksum.
C2_OneRecordPerChecksum ==
    \A r1 \in catalog : \A r2 \in catalog :
        r1.Checksum = r2.Checksum => r1 = r2

\* C3: a Store whose InsertOne is rejected because a record with the same
\* checksum is already there returns an existing record's ID with
\* ErrImageAlreadyExists, not a fatal error with an empty ID.
C3_DuplicateInsertIsSoftSuccess ==
    \A p \in Procs :
        StoreDone(p) /\ frame[p].insertErr = "dup" =>
            /\ frame[p].retErr = ErrImageAlreadyExists
            /\ frame[p].retID # UnknownID

\* C4: after any sequence of Store calls whose backend calls may fail, once
\* every call has returned, every catalog record's gridfsID names a blob that
\* is in the bucket.
C4_ReturnedStoresLeaveNoDanglingRecord ==
    (\A p \in Procs : pc[p] \in {"idle", "done"}) => Dangling = {}

\* C5: in every reachable state, the states between the backend calls of a
\* call in progress included, every catalog record has its blob in the bucket.
C5_RecordImpliesBlob == Dangling = {}

\* C6: when the InsertOne of a Store has failed and the call has returned, it
\* returned the insert error with an empty ID, no record has the generated
\* imageID, and unless the backend failed the compensating delete no blob is
\* left under the generated gridfsID.
C6_FailedInsertIsCompensated ==
    \A p \in Procs :
        StoreDone(p) /\ frame[p].insertErr \in {"err", "dup"} =>
            /\ frame[p].retErr = ErrSaveMetadata
            /\ frame[p].retID = UnknownID
            /\ frame[p].imageID \notin CatalogIDs
            /\ (~frame[p].deleteFault => frame[p].gridfsID \notin BucketIDs)

\* C7: a Store whose sniffed content type is not on the allow-list returns
\* ErrInvalidImageType with an empty ID, having made no backend call at all
\* (no lookup, no blob write, no insert) and generated no identifier.
C7_InvalidTypeTouchesNothing ==
    \A p \in Procs :
        StoreDone(p) /\ DetectContentType(frame[p].data) \notin validTypes =>
            /\ frame[p].retErr = ErrInvalidImageType
            /\ frame[p].retID = UnknownID
            /\ frame[p].calls = <<>>
            /\ frame[p].imageID = UnknownID /\ frame[p].gridfsID = UnknownID

C7_Witness ==
    \E p \in Procs :
        /\ StoreDone(p) /\ frame[p].data = TextC
        /\ frame[p].retErr = ErrInvalidImageType
        /\ catalog # {} /\ bucket # {}

\* C8 as stated: DeleteImage of an imageID that has no catalog record returns
\* ErrImageNotFound and issues no delete.
C8_DeleteAbsentIsNotFound ==
    \A p \in Procs :
        IsDone(p, "DeleteImage") /\ frame[p].absent =>
            /\ frame[p].retErr = ErrImageNotFound
            /\ frame[p].calls = <<"FindOne">>

\* C8 amended: DeleteImage of an imageID that has no catalog record returns
\* ErrImageNotFound, or the wrapped lookup error when the lookup itself
\* failed; either way its only backend call is the lookup, so the records and
\* the blobs are as they were.
C8_DeleteAbsentChangesNothing ==
    \A p \in Procs :
        IsDone(p, "DeleteImage") /\ frame[p].absent =>
            /\ frame[p].retErr = IF frame[p].faulted THEN ErrGetMetadata
                                 ELSE ErrImageNotFound
            /\ frame[p].calls = <<"FindOne">>

C8_Witness ==
    \E p \in Procs :
        /\ IsDone(p, "DeleteImage") /\ frame[p].absent
        /\ frame[p].retErr = ErrImageNotFound
        /\ catalog # {} /\ bucket # {}

\* The general part of C9: a sweep that ran undisturbed (no backend call of
\* it failed, nobody else changed a store meanwhile) deleted exactly the
\* blobs that no record referenced when it started, and returns their number.
SweepExact(p) ==
    /\ frame[p].retErr = NilErr
    /\ frame[p].orphanedCount = Cardinality(frame[p].startOrphans)
    /\ BucketIDs = frame[p].startBlobs \ frame[p].startOrphans

C9_QuietSweepRemovesExactlyTheOrphans ==
    \A p \in Procs :
        IsDone(p, "CleanupOrphanedFiles") /\ frame[p].quiet => SweepExact(p)

\* C9: an undisturbed sweep deletes exactly the unreferenced blobs and
\* returns their number; and run after N successful Stores plus one Store
\* that crashed between its Write and its InsertOne, it returns 1 and every
\* record still has its blob.
C9_SweepAfterCrashedStoreReturnsOne ==
    \A p \in Procs :
        IsDone(p, "CleanupOrphanedFiles") /\ frame[p].quiet =>
            /\ SweepExact(p)
            /\ frame[p].scenario => frame[p].orphanedCount = 1 /\ Dangling = {}

\* A step of the sweep of p: only p's own steps move its frame and its
\* position, and every step of a sweep (Find, CountDocuments, either call of
\* Delete, a failed Next) moves one of them.
SweepStep(p) ==
    /\ frame'[p] # frame[p] \/ pc'[p] # pc[p]
    /\ frame'[p].op = "CleanupOrphanedFiles"

\* C10: no step of CleanupOrphanedFiles changes the catalog, whatever its
\* path and whoever runs beside it; and the records whose blob was missing
\* when an undisturbed sweep started are in the catalog when it returns.

C10_SweepNeverTouchesCatalog ==
    /\ [][(\E p \in Procs : SweepStep(p)) => catalog' = catalog]_vars
    /\ [](\A p \in Procs :
            IsDone(p, "CleanupOrphanedFiles") /\ frame[p].quiet =>
                frame[p].startDangling \subseteq CatalogIDs)

C10_Witness ==
    \E p \in Procs :
        /\ IsDone(p, "CleanupOrphanedFiles") /\ frame[p].quiet
        /\ frame[p].startDangling # {}
        /\ frame[p].orphanedCount > 0

\* The effect of one UpdateOne step of caller p: the blobs and every record
\* with another imageID are as before, no record appears or disappears, and
\* the record with the given imageID differs from its predecessor at most in
\* the fields named.
SameExcept(r1, r2, fields) ==
    /\ DOMAIN r1 = DOMAIN r2
    /\ \A k \in DOMAIN r1 \ fields : r1[k] = r2[k]

UpdateStep(p) == UpdateTagsApply(p) \/ UpdateMetadataApply(p)

UpdateFields(p) ==
    IF frame[p].op = "UpdateImageTags" THEN {"Tags", "UpdatedAt"}
    ELSE {"Metadata", "UpdatedAt"}

UpdateFrameEffect(p) ==
    LET id == frame[p].argID
    IN  /\ bucket' = bucket /\ chunks' = chunks
        /\ {r \in catalog' : r.ImageID # id} = {r \in catalog : r.ImageID # id}
        /\ Cardinality(catalog') = Cardinality(catalog)
        /\ \A r2 \in catalog' :
              r2.ImageID = id =>
                  \E r1 \in catalog : r1.ImageID = id /\ SameExcept(r1, r2, UpdateFields(p))
        /\ ByImageID(id) = {} => catalog' = catalog

\* C11 as stated: UpdateImageTags changes only tags and updatedAt of the
\* record with the given imageID, UpdateImageMetadata only metadata and
\* updatedAt; every other field, every other record and the bucket are
\* unchanged; with no record of that imageID the call returns
\* ErrImageNotFound and creates no record.
C11_UpdateAbsentIsNotFound ==
    [][\A p \in Procs :
          UpdateStep(p) =>
              /\ UpdateFrameEffect(p)
              /\ ByImageID(frame[p].argID) = {} => frame'[p].retErr = ErrImageNotFound]_vars

\* C11 amended: the same frame effect; with no record of that imageID the
\* call creates no record and returns ErrImageNotFound, or the wrapped
\* update error when UpdateOne itself failed.
C11_UpdateTouchesOnlyItsField ==
    [][\A p \in Procs :
          UpdateStep(p) =>
              /\ UpdateFrameEffect(p)
              /\ ByImageID(frame[p].argID) = {} =>
                    frame'[p].retErr =
                        IF ~frame'[p].faulted THEN ErrImageNotFound
                        ELSE IF frame[p].op = "UpdateImageTags" THEN ErrUpdateTags
                        ELSE ErrUpdateMetadata]_vars

C11_Witness ==
    \E p \in Procs :
        /\ IsDone(p, "UpdateImageTags") /\ frame[p].retErr = NilErr
        /\ Cardinality(catalog) = 2 /\ bucket # {}
        /\ \E r \in ByImageID(frame[p].argID) :
              r.Tags = frame[p].tags /\ r.Metadata \in NewMetadataInputs

\* The bytes a read that returned a nil error delivered: the stream of
\* GetImageData, the file written by DownloadImageToFile.
ReadDone(p) ==
    /\ pc[p] = "done" /\ frame[p].op \in {"GetImageData", "DownloadImageToFile"}
    /\ frame[p].retErr = NilErr

Delivered(p) ==
    IF frame[p].op = "GetImageData" THEN frame[p].retStream ELSE frame[p].written

\* What C12 says of the bytes a read delivered: they have the digest and the
\* length its record carries, and where the imageID was returned by a
\* successful Store they are the bytes that Store was given.
DeliveredAsStored(p) ==
    /\ Sha256Hex(Delivered(p)) = frame[p].imageMeta.Checksum
    /\ Len(Delivered(p)) = frame[p].imageMeta.Size
    /\ \A r \in ByImageID(frame[p].argID) :
          /\ Sha256Hex(Delivered(p)) = r.Checksum
          /\ Len(Delivered(p)) = r.Size
    /\ \A st \in stored :
          st[2] = frame[p].argID => st[1] = Sha256Hex(Delivered(p))

\* The part of C12 that holds: a read whose chunk query found the chunks of
\* the file delivers the stored bytes.
C12_FoundChunksAreStoredBytes ==
    \A p \in Procs : ReadDone(p) /\ ~frame[p].missing => DeliveredAsStored(p)

\* C12: when GetImageData or DownloadImageToFile delivers an asset whose
\* record is in the catalog, the bytes delivered have the digest and the
\* length its record carries, and where the imageID was returned by a
\* successful Store they are the bytes that Store was given.
C12_DeliveredBytesAreStoredBytes ==
    \A p \in Procs :
        ReadDone(p) /\ frame[p].imageMeta \in catalog => DeliveredAsStored(p)

\* A read of a stored asset, made with no other call in progress and no
\* failing call of its own, that returned a nil error and delivered nothing.
C12_EmptyReadOfStoredAsset ==
    \E p \in Procs :
        /\ ReadDone(p) /\ ~frame[p].faulted /\ frame[p].missing
        /\ frame[p].imageMeta \in catalog
        /\ \E st \in stored : st[2] = frame[p].argID
        /\ \A q \in Procs : q # p => pc[q] = "idle"

\* The reference listing: res lists, newest first, records kept by the tag
\* filter; the kept records it leaves out are `skip` records none of which is
\* older than a listed one, and records none of which is newer than a listed
\* one; and it is as long as limit and the number of kept records allow.
Min(a, b) == IF a < b THEN a ELSE b

IsReferenceListing(res, tags, limit, offset) ==
    LET kept == IF tags = <<>> THEN catalog
                ELSE {r \in catalog : Range(r.Tags) \cap Range(tags) # {}}
        n == Cardinality(kept)
        skip == IF offset > 0 THEN Min(offset, n) ELSE 0
        len == IF limit > 0 THEN Min(limit, n - skip) ELSE n - skip
        left == kept \ Range(res)
    IN  /\ Len(res) = len
        /\ Range(res) \subseteq kept
        /\ Cardinality(Range(res)) = len
        /\ \A i, j \in DOMAIN res : i < j => res[i].CreatedAt >= res[j].CreatedAt
        /\ \E before \in SUBSET left :
              /\ Cardinality(before) = skip
              /\ \A b \in before : \A i \in DOMAIN res : b.CreatedAt >= res[i].CreatedAt
              /\ \A a \in left \ before : \A i \in DOMAIN res : a.CreatedAt <= res[i].CreatedAt

\* C13: a ListImages(tags, limit, offset) that ran on a quiescent catalog and
\* returned a nil error returned the reference listing: the records sharing
\* a tag with tags (all when tags is empty), by createdAt descending, without
\* the first offset, cut to limit when limit is positive.
C13_ListMatchesReference ==
    \A p \in Procs :
        IsDone(p, "ListImages") /\ frame[p].quiet /\ frame[p].retErr = NilErr =>
            IsReferenceListing(frame[p].retList, frame[p].tags,
                               frame[p].limit, frame[p].offset)

C13_Witness ==
    \E p \in Procs :
        /\ IsDone(p, "ListImages") /\ frame[p].quiet /\ frame[p].retErr = NilErr
        /\ frame[p].tags = <<"y">> /\ frame[p].limit = 1 /\ frame[p].offset = 1
        /\ Len(frame[p].retList) = 1
        /\ \E r \in catalog : r.CreatedAt > frame[p].retList[1].CreatedAt

\* The statistics a GetImageStats returned describe the set S of records:
\* its number, the sum of its sizes, and their quotient.
StatsDescribe(st, S) ==
    /\ st.totalCount = Cardinality(S)
    /\ st.totalSize = SumSize(S)
    /\ st.avgSize[1] * st.totalCount = st.totalSize * st.avgSize[2]

StatsDone(p) == IsDone(p, "GetImageStats") /\ frame[p].retErr = NilErr

\* The quiescent part of C14: a GetImageStats during which no record was
\* inserted or deleted returns the number of records, the sum of their sizes
\* and that sum divided by that number.
C14_QuiescentStatsAreExact ==
    \A p \in Procs :
        StatsDone(p) /\ frame[p].quiet => StatsDescribe(frame[p].retStats, catalog)

\* C14: GetImageStats returns the number of records, the sum of their sizes
\* and the quotient of the two; with stores and deletes running beside it the
\* three values still describe one and the same set of records: the catalog
\* before the call's first query, or the catalog after its last.
C14_StatsDescribeOneCatalog ==
    \A p \in Procs :
        StatsDone(p) =>
            \/ StatsDescribe(frame[p].retStats, catalog)
            \/ StatsDescribe(frame[p].retStats, frame[p].seen[1])

\* C15: within one Store call the blob is committed (its fs.files document
\* is in the bucket, enumerable and readable) before the call's InsertOne is
\* attempted, so no record is inserted for a blob not yet committed.
C15_BlobCommittedBeforeInsert ==
    [][\A p \in Procs : StoreInsert(p) => frame[p].gridfsID \in BucketIDs]_vars

\* The bucket.Delete of a DeleteImage of caller p returns an error.
BlobDeleteFails(p) == DeleteBlobChunks(p) /\ frame'[p].retErr = ErrDeleteGridFS

\* An asset a GetImageData none of whose backend calls fails delivers.
Retrievable(id) == \E r \in ByImageID(id) : Readable(r.GridFSID)

\* The part of C16 that holds: a DeleteImage whose blob delete fails returns
\* without attempting the catalog delete and leaves the records as they
\* were; it has removed nothing but documents of the file it was deleting.
C16_FailedBlobDeleteChangesNothing ==
    [][\A p \in Procs :
          BlobDeleteFails(p) =>
              /\ pc'[p] = "done" /\ frame'[p].calls = <<"FindOne", "Delete">>
              /\ catalog' = catalog
              /\ bucket' \in {bucket, BucketAfterDelete(frame[p].imageMeta.GridFSID)}
              /\ chunks' \in {chunks, ChunksAfterDelete(frame[p].imageMeta.GridFSID)}]_vars

\* C16: if the blob delete inside DeleteImage fails, DeleteImage returns an
\* error without attempting the catalog delete, the record is unchanged and
\* the asset is retrievable: a GetImageData for that imageID finds the record
\* and its blob.
C16_FailedBlobDeleteKeepsAssetRetrievable ==
    [][\A p \in Procs :
          BlobDeleteFails(p) =>
              /\ pc'[p] = "done" /\ frame'[p].calls = <<"FindOne", "Delete">>
              /\ catalog' = catalog
              /\ (frame[p].imageMeta \in catalog => Retrievable(frame[p].argID)')]_vars

\* A step of the sweep of caller p that removes documents of a blob.
SweepRemoves(p) ==
    /\ CleanupDeleteFiles(p) \/ CleanupDeleteChunks(p)
    /\ bucket' # bucket \/ chunks' # chunks

\* C17: every blob a CleanupOrphanedFiles removes, with Store calls running
\* beside it, is a true orphan: no record references it, and the Store that
\* uploaded it, if still in progress, has failed its InsertOne; so it is
\* never the blob of a Store that goes on to insert its record and succeed.
C17_SweepRemovesOnlyTrueOrphans ==
    [][\A p \in Procs :
          SweepRemoves(p) =>
              /\ ByGridFSID(frame[p].file) = {}
              /\ \A q \in Procs :
                    frame[q].op = "StoreImageFromReader" /\ frame[q].gridfsID = frame[p].file
                        => frame[q].insertErr \in {"err", "dup"}]_vars

C17_Witness ==
    \E p \in Procs, q \in Procs :
        /\ IsDone(p, "CleanupOrphanedFiles") /\ frame[p].orphanedCount > 0
        /\ frame[q].op = "StoreImageFromReader" /\ frame[q].insertErr = "nil"
        /\ pc[q] = "close"

\* How often a call made the backend call named.
CountOf(calls, name) == Cardinality({i \in DOMAIN calls : calls[i] = name})

\* The part of C18 that holds: the bucket.Delete of a sweep, failed or not,
\* never ends the sweep with an error; it counts at most the blob whose
\* fs.files document it removed, once its second call has returned, and the
\* sweep goes on with the keys that remain; and a sweep
\* whose enumeration did not fail has examined every enumerated key when it
\* returns, with a nil error.
C18_SweepContinuesAndNeverOvercounts ==
    /\ [][\A p \in Procs :
            CleanupDeleteFiles(p) =>
                /\ frame'[p].filesErr <=> bucket' = bucket
                /\ frame'[p].orphanedCount = frame[p].orphanedCount
                /\ frame'[p].retErr = NilErr
                /\ pc'[p] = "c_chunks"]_vars
    /\ [][\A p \in Procs :
            CleanupDeleteChunks(p) =>
                /\ frame'[p].orphanedCount - frame[p].orphanedCount \in {0, 1}
                /\ frame'[p].orphanedCount - frame[p].orphanedCount
                      <= IF frame[p].filesErr THEN 0 ELSE 1
                /\ frame'[p].retErr = NilErr
                /\ frame'[p].cursor = frame[p].cursor
                /\ pc'[p] = IF frame[p].cursor = {} THEN "done" ELSE "c_next"]_vars
    /\ [](\A p \in Procs :
            /\ IsDone(p, "CleanupOrphanedFiles")
            /\ frame[p].retErr # ErrListGridFS
            /\ CountOf(frame[p].calls, "Next") = 0
            => /\ frame[p].retErr = NilErr
               /\ CountOf(frame[p].calls, "CountDocuments") = Cardinality(frame[p].startBlobs)
               /\ frame[p].orphanedCount <= CountOf(frame[p].calls, "Delete"))

\* C18: the bucket.Delete of a sweep, failed or not, never ends the sweep
\* with an error: it counts exactly the blob whose fs.files document it
\* removed, if any, once its second call has returned, and the sweep goes on
\* with the keys that remain; and a sweep whose enumeration
\* did not fail has examined every enumerated key when it returns, with a
\* nil error.
C18_SweepContinuesPastFailedDelete ==
    /\ [][\A p \in Procs :
            CleanupDeleteFiles(p) =>
                /\ frame'[p].filesErr <=> bucket' = bucket
                /\ frame'[p].orphanedCount = frame[p].orphanedCount
                /\ frame'[p].retErr = NilErr
                /\ pc'[p] = "c_chunks"]_vars
    /\ [][\A p \in Procs :
            CleanupDeleteChunks(p) =>
                /\ frame'[p].orphanedCount =
                      frame[p].orphanedCount + IF frame[p].filesErr THEN 0 ELSE 1
                /\ frame'[p].retErr = NilErr
                /\ frame'[p].cursor = frame[p].cursor
                /\ pc'[p] = IF frame[p].cursor = {} THEN "done" ELSE "c_next"]_vars
    /\ [](\A p \in Procs :
            /\ IsDone(p, "CleanupOrphanedFiles")
            /\ frame[p].retErr # ErrListGridFS
            /\ CountOf(frame[p].calls, "Next") = 0
            => /\ frame[p].retErr = NilErr
               /\ CountOf(frame[p].calls, "CountDocuments") = Cardinality(frame[p].startBlobs)
               /\ frame[p].orphanedCount <= CountOf(frame[p].calls, "Delete"))

\* C19: a Store whose context is cancelled after its Write and before its
\* InsertOne (the InsertOne fails, nothing else does) returns the insert
\* error with an empty ID and leaves its blob in the bucket with no record;
\* the call has not removed it, and a blob no record references leaves the
\* bucket only by a step of CleanupOrphanedFiles.
C19_CancelledStoreLeavesOrphan ==
    /\ [](\A p \in Procs :
            StoreDone(p) /\ frame[p].insertErr = "err" /\ ~frame[p].closeFault =>
                /\ frame[p].retErr = ErrSaveMetadata
                /\ frame[p].retID = UnknownID
                /\ frame[p].imageID \notin CatalogIDs
                /\ frame[p].gridfsID \in Orphans)
    /\ [][\A g \in Orphans :
            g \notin BucketIDs' =>
                \E p \in Procs : CleanupDeleteFiles(p) /\ frame[p].file = g]_vars

C19_Witness ==
    \E p \in Procs :
        /\ StoreDone(p) /\ frame[p].insertErr = "err" /\ ~frame[p].closeFault
        /\ frame[p].calls = <<"FindOne", "OpenUploadStream", "Write", "InsertOne", "Delete", "Close">>
        /\ ~frame[p].deleteFault
        /\ frame[p].gridfsID \in Orphans
        /\ catalog # {}

\* An UpdateOne step of caller p that succeeds on a record that was in the
\* catalog when the call began (the caller has learnt the imageID from it).
UpdateSucceeds(p) ==
    UpdateStep(p) /\ frame'[p].retErr = NilErr /\ ~frame[p].absent

\* The part of C20 that holds: after a successful update the record's
\* updatedAt is not earlier than its createdAt.
C20_UpdatedAtNotBeforeCreatedAt ==
    [][\A p \in Procs :
          UpdateSucceeds(p) =>
              \A r2 \in catalog' :
                  r2.ImageID = frame[p].argID => r2.UpdatedAt >= r2.CreatedAt]_vars

\* C20: after every successful UpdateImageTags or UpdateImageMetadata the
\* record's updatedAt is not earlier than the value stored before the update
\* and not earlier than its createdAt, also with several updates of the same
\* record running concurrently.
C20_UpdatedAtNeverGoesBack ==
    [][\A p \in Procs :
          UpdateSucceeds(p) =>
              \A r2 \in catalog' :
                  r2.ImageID = frame[p].argID =>
                      /\ r2.UpdatedAt >= r2.CreatedAt
                      /\ \A r1 \in ByImageID(frame[p].argID) :
                            r2.UpdatedAt >= r1.UpdatedAt]_vars

\* The part of C21 that holds: a GetImageData whose record exists and whose
\* fs.files document is missing when the stream is opened returns the
\* open-download error, which is not ErrImageNotFound, with no stream and no
\* metadata, and leaves the records and the blobs as they were; and no
\* GetImageData that found its record returns ErrImageNotFound.
C21_MissingFileIsDistinctError ==
    /\ [][\A p \in Procs :
            GetDataOpen(p) /\ frame[p].imageMeta.GridFSID \notin BucketIDs =>
                /\ frame'[p].retErr = ErrOpenDownload
                /\ frame'[p].retErr # ErrImageNotFound
                /\ frame'[p].retStream = <<>> /\ frame'[p].imageMeta = NoMeta
                /\ catalog' = catalog /\ bucket' = bucket /\ chunks' = chunks]_vars
    /\ [](\A p \in Procs :
            IsDone(p, "GetImageData") /\ ~frame[p].absent =>
                frame[p].retErr # ErrImageNotFound)

\* The step of a GetImageData of caller p that finds the blob missing: no
\* fs.files document at the lookup, or no chunks at the chunk query.
FindsBlobMissing(p) ==
    \/ GetDataOpen(p) /\ frame[p].imageMeta.GridFSID \notin BucketIDs
    \/ GetDataChunks(p) /\ ChunksOf(frame[p].imageMeta.GridFSID) = {}

\* C21: a GetImageData whose record exists and whose blob is missing when
\* the stream is opened returns the open-download error, which is not
\* ErrImageNotFound, with no stream and no metadata, and leaves the records
\* and the blobs as they were; and no GetImageData that found its record
\* returns ErrImageNotFound.
C21_MissingBlobIsDistinctError ==
    /\ [][\A p \in Procs :
            FindsBlobMissing(p) =>
                /\ pc'[p] = "done"
                /\ frame'[p].retErr = ErrOpenDownload
                /\ frame'[p].retErr # ErrImageNotFound
                /\ frame'[p].retStream = <<>> /\ frame'[p].imageMeta = NoMeta
                /\ catalog' = catalog /\ bucket' = bucket /\ chunks' = chunks]_vars
    /\ [](\A p \in Procs :
            IsDone(p, "GetImageData") /\ ~frame[p].absent =>
                frame[p].retErr # ErrImageNotFound)

\* No call is in progress.
Quiescent == \A p \in Procs : pc[p] = "idle"

\* The records whose fs.files document is not in the bucket.
Fileless == {r.ImageID : r \in {x \in catalog : x.GridFSID \notin BucketIDs}}

\* The part of C22 that holds: once a record's fs.files document is missing
\* with no call in progress, the record is in the catalog, the document
\* missing, in every later state, whatever operations follow; and every
\* DeleteImage that reaches its blob delete with the document missing fails
\* there and returns with the catalog as it was.
C22_FilelessRecordIsNeverRemoved ==
    /\ \A id \in ImageIDs :
          [](Quiescent /\ id \in Fileless => [](id \in Fileless))
    /\ [][\A p \in Procs :
            DeleteBlobFiles(p) /\ frame[p].imageMeta.GridFSID \notin BucketIDs =>
                frame'[p].filesErr /\ catalog' = catalog]_vars
    /\ [][\A p \in Procs :
            DeleteBlobChunks(p) /\ frame[p].filesErr =>
                /\ frame'[p].retErr = ErrDeleteGridFS
                /\ pc'[p] = "done"
                /\ catalog' = catalog]_vars

\* C22: once a record's blob is missing with no call in progress, the record
\* is in the catalog, its blob missing, in every later state, whatever
\* operations follow; and every DeleteImage that reaches its blob delete with
\* the blob missing fails there and returns with the catalog as it was.
C22_DanglingRecordIsNeverRemoved ==
    /\ \A id \in ImageIDs :
          [](Quiescent /\ id \in Dangling => [](id \in Dangling))
    /\ [][\A p \in Procs :
            DeleteBlobFiles(p) /\ ~Readable(frame[p].imageMeta.GridFSID) =>
                frame'[p].filesErr /\ catalog' = catalog]_vars
    /\ [][\A p \in Procs :
            DeleteBlobChunks(p) /\ frame[p].filesErr =>
                /\ frame'[p].retErr = ErrDeleteGridFS
                /\ pc'[p] = "done"
                /\ catalog' = catalog]_vars

\* C23: a Store whose duplicate lookup fails does not return there: it goes
\* on to open the upload stream under freshly generated identifiers, with
\* the locals a lookup that found no duplicate leaves, whether or not a
\* record with the checksum exists; and a Store that got as far as its
\* InsertOne after a failed lookup attempted it under an imageID that was
\* not in the catalog.
C23_FailedLookupIsSwallowed ==
    /\ [][\A p \in Procs :
            StoreLookup(p) /\ frame'[p].faulted =>
                /\ pc'[p] = "open"
                /\ nextID' = nextID + 1
                /\ frame'[p] = [frame[p] EXCEPT !.calls = <<"FindOne">>, !.faulted = TRUE,
                                                 !.imageID = nextID + 1,
                                                 !.gridfsID = nextID + 1]
                /\ nextID + 1 \notin CatalogIDs \cup BucketIDs]_vars
    /\ [][\A p \in Procs :
            StoreInsert(p) /\ frame'[p].insertErr = "nil" =>
                /\ frame[p].imageMeta.ImageID \notin CatalogIDs
                /\ frame[p].imageMeta \in catalog']_vars

C23_Witness ==
    \E p \in Procs :
        /\ StoreDone(p) /\ frame[p].retErr = NilErr
        /\ frame[p].faulted /\ ~frame[p].closeFault
        /\ frame[p].calls = <<"FindOne", "OpenUploadStream", "Write", "InsertOne", "Close">>
        /\ frame[p].prior # {}
        /\ Cardinality(ByChecksum(frame[p].checksum)) = 2
        /\ frame[p].gridfsID \in BucketIDs

====
